---- MODULE Spec2Model ----
(***************************************************************************)
(* dockershit: the instruction log (Dockerfile), the executor             *)
(* (Docker.input), and the builder (Docker.build).                         *)
(*                                                                         *)
(* A text string is modelled as a sequence of atoms.  An atom is either a  *)
(* single significant character (" ", "#", "/", newline, backslash) or a   *)
(* whole word ("WORKDIR", "ENV", "a", ...).  Every string operation of the *)
(* source (strip, startswith, split, join, splitlines) is computed on the  *)
(* atoms.                                                                  *)
(***************************************************************************)
EXTENDS Integers, Sequences, FiniteSets, TLC

VARIABLES
    lines,      \* Dockerfile.lines: sequence of strings
    image,      \* Dockerfile.image: string, <<>> when None
    workdir,    \* Dockerfile.workdir: string
    file,       \* content of Dockerfile.path, NoFile when it does not exist
    err,        \* "none", or the exception a call let escape
    call,       \* the last call made on the objects: [op, arg]
    pre,        \* Dockerfile.lines when the last call started
    ops,        \* what the last call did, in order: events [ev, line, rc, log]
    ret,        \* what Docker.build returned in the last call, "none" if not run
    prev,       \* [workdir, image] of the Dockerfile when the last call started
    session,    \* the lines typed since the start and the builds each caused,
                \* kept while a session is followed: [on, typed, builds, clean]
    kb          \* Keyboard.input in progress: [lines, state, out, last, first]

vars == <<lines, image, workdir, file, err, call, pre, ops, ret, prev, session, kb>>

----------------------------------------------------------------------------
(* Bounds *)

MaxLines == 2       \* Docker.input is offered while the log has at most this many lines
MaxWd == 2          \* ... and workdir at most this many atoms
MaxFileLines == 4   \* a Dockerfile method that adds a line is offered below this many lines
MaxTyped == 3       \* a followed session takes at most this many lines
MaxLoadLines == 3   \* a file handed to Dockerfile(path) has at most this many lines
MaxKeyLines == 3    \* Keyboard.input reads at most this many physical lines of one command
MaxFileLen == 26    \* a log is written and read back while its file has at most this many atoms

----------------------------------------------------------------------------
(* Strings *)

SP == " "
NL == "\n"
BS == "\\"
HASH == "#"
SLASH == "/"

NoFile == <<"<no file>">>
None == <<>>

IsSpace(c) == c \in {SP, NL, "\t"}

RECURSIVE lstrip(_)
lstrip(s) ==
    IF s = <<>> THEN s
    ELSE IF IsSpace(Head(s)) THEN lstrip(Tail(s)) ELSE s

RECURSIVE rstrip(_)
rstrip(s) ==
    IF s = <<>> THEN s
    ELSE IF IsSpace(s[Len(s)]) THEN rstrip(SubSeq(s, 1, Len(s) - 1)) ELSE s

strip(s) == rstrip(lstrip(s))

startswith(s, p) == Len(s) >= Len(p) /\ SubSeq(s, 1, Len(p)) = p

endswith(s, p) == Len(s) >= Len(p) /\ SubSeq(s, Len(s) - Len(p) + 1, Len(s)) = p

contains(s, c) == \E i \in 1..Len(s) : s[i] = c

upper(c) ==
    CASE c = "from" -> "FROM"
      [] c = "workdir" -> "WORKDIR"
      [] OTHER -> c

Upper(s) == [i \in 1..Len(s) |-> upper(s[i])]

\* number of leading atoms of s that are not whitespace
RECURSIVE TokLen(_)
TokLen(s) ==
    IF s = <<>> \/ IsSpace(Head(s)) THEN 0 ELSE 1 + TokLen(Tail(s))

\* str.split(maxsplit=1): at most two parts, leading whitespace dropped
split1(s) ==
    LET t == lstrip(s)
        n == TokLen(t)
        rest == lstrip(SubSeq(t, n + 1, Len(t)))
    IN  IF t = <<>> THEN <<>>
        ELSE IF rest = <<>> THEN <<SubSeq(t, 1, n)>>
        ELSE <<SubSeq(t, 1, n), rest>>

\* str.splitlines()
RECURSIVE SplitAcc(_, _, _)
SplitAcc(s, cur, acc) ==
    IF s = <<>> THEN (IF cur = <<>> THEN acc ELSE Append(acc, cur))
    ELSE IF Head(s) = NL THEN SplitAcc(Tail(s), <<>>, Append(acc, cur))
    ELSE SplitAcc(Tail(s), Append(cur, Head(s)), acc)

splitlines(s) == SplitAcc(s, <<>>, <<>>)

\* "\n".join(ls)
RECURSIVE join(_)
join(ls) ==
    IF ls = <<>> THEN <<>>
    ELSE IF Len(ls) = 1 THEN ls[1]
    ELSE ls[1] \o <<NL>> \o join(Tail(ls))

----------------------------------------------------------------------------
(* Dockerfile (docker_file.py).  A Dockerfile object is the record        *)
(* [lines, image, workdir, file, err].                                     *)

COMMANDS == {"ADD", "COPY", "ENV", "EXPOSE", "LABEL", "USER", "VOLUME",
             "WORKDIR", "CMD", "ENTRYPOINT"}

DEFAULT_IMAGE == <<"alpine:latest">>

FromLine(img) == <<"FROM", SP>> \o img

WorkdirLine(pwd) == <<"WORKDIR", SP>> \o pwd

exists(d) == d.file # NoFile

matters(line) ==
    LET is_empty == strip(line) = <<>>
        is_comment == startswith(strip(line), <<HASH>>)
    IN  ~is_empty /\ ~is_comment

is_command(line) ==
    LET parts == split1(strip(line))
    IN  parts # <<>> /\ Len(parts[1]) = 1 /\ parts[1][1] \in COMMANDS

write(d) == [d EXCEPT !.file = join(d.lines) \o <<NL>>]

append(d, line) == write([d EXCEPT !.lines = Append(@, line)])

\* set_pwd that moves workdir without recording it in the log
set_pwd_no_append(d, pwd) == [d EXCEPT !.workdir = pwd]

set_pwd(d, pwd) == append([d EXCEPT !.workdir = pwd], WorkdirLine(pwd))

\* the lines left after popping while the last line does not matter
RECURSIVE PopInert(_)
PopInert(ls) ==
    IF ls # <<>> /\ ~matters(ls[Len(ls)])
    THEN PopInert(SubSeq(ls, 1, Len(ls) - 1))
    ELSE ls

\* remove_last_command without its loop: the last line alone is popped
remove_last_command_no_strip(d) ==
    IF d.lines = <<>>
    THEN [d EXCEPT !.err = "IndexError"]
    ELSE write([d EXCEPT !.lines = SubSeq(@, 1, Len(@) - 1)])

\* remove_last_command with a second loop, after the pop
remove_last_command_strip_above(d) ==
    LET kept == PopInert(d.lines)
    IN  IF kept = <<>>
        THEN [d EXCEPT !.lines = <<>>, !.err = "IndexError"]
        ELSE write([d EXCEPT !.lines = PopInert(SubSeq(kept, 1, Len(kept) - 1))])

remove_last_command(d) ==
    LET kept == PopInert(d.lines)
    IN  IF kept = <<>>
        THEN [d EXCEPT !.lines = <<>>, !.err = "IndexError"]
        ELSE write([d EXCEPT !.lines = SubSeq(kept, 1, Len(kept) - 1)])

\* index of the first line that starts with "FROM " in upper case, 0 if none
RECURSIVE FirstFrom(_, _)
FirstFrom(ls, i) ==
    IF i > Len(ls) THEN 0
    ELSE IF startswith(Upper(ls[i]), <<"FROM", SP>>) THEN i
    ELSE FirstFrom(ls, i + 1)

\* set_image without the search for an existing FROM line
set_image_insert_always(d, img) ==
    [d EXCEPT !.image = img, !.lines = <<FromLine(img)>> \o @]

set_image(d, img) ==
    LET i == FirstFrom(d.lines, 1)
    IN  IF i > 0
        THEN [d EXCEPT !.image = img, !.lines[i] = FromLine(img)]
        ELSE [d EXCEPT !.image = img, !.lines = <<FromLine(img)>> \o @]

\* Dockerfile.load, the loop over raw_lines: <<current, self.lines>> at its end
RECURSIVE LoadLoop(_, _, _, _)
LoadLoop(raw, i, current, out) ==
    IF i > Len(raw) THEN <<current, out>>
    ELSE IF endswith(current, <<BS>>)
         THEN LoadLoop(raw, i + 1, current \o <<NL>> \o raw[i], out)
         ELSE LoadLoop(raw, i + 1, raw[i], Append(out, raw[i]))

\* the second parts of the lines whose first part is kw in upper case
RECURSIVE Args(_, _)
Args(ls, kw) ==
    IF ls = <<>> THEN <<>>
    ELSE LET c == split1(Head(ls))
         IN  IF contains(Head(ls), SP) /\ Len(c) = 2 /\ Upper(c[1]) = <<kw>>
             THEN <<c[2]>> \o Args(Tail(ls), kw)
             ELSE Args(Tail(ls), kw)

\* cmd[0] of an empty split, or cmd[1] of a FROM / WORKDIR line with no argument
LoadIndexError(ls) ==
    \E i \in 1..Len(ls) :
        /\ contains(ls[i], SP)
        /\ LET c == split1(ls[i])
           IN  \/ c = <<>>
               \/ Len(c) = 1 /\ Upper(c[1]) \in {<<"FROM">>, <<"WORKDIR">>}

load(d) ==
    LET raw == splitlines(d.file)
        r == LoadLoop(raw, 1, <<>>, <<>>)
        read == IF r[1] # raw[Len(raw)] THEN Append(r[2], r[1]) ELSE r[2]
        ls == IF exists(d) THEN read ELSE d.lines
        froms == Args(ls, "FROM")
        chdirs == Args(ls, "WORKDIR")
    IN  IF exists(d) /\ raw = <<>> THEN [d EXCEPT !.err = "NameError"]
        ELSE IF LoadIndexError(ls) THEN [d EXCEPT !.lines = ls, !.err = "IndexError"]
        ELSE [d EXCEPT !.lines = ls,
                       !.image = IF froms # <<>> THEN froms[1] ELSE @,
                       !.workdir = IF chdirs # <<>> THEN chdirs[Len(chdirs)] ELSE @]

\* Dockerfile.__init__
Construct(f, img) ==
    LET d0 == [lines |-> <<>>, image |-> img, workdir |-> <<SLASH>>, file |-> f,
               err |-> "none", ops |-> <<>>, ret |-> "none"]
        d1 == load(d0)
    IN  IF d1.err # "none" THEN d1
        ELSE IF ~exists(d1) \/ d1.image = None
             THEN set_image(d1, IF img # None THEN img ELSE DEFAULT_IMAGE)
        ELSE IF img # None THEN set_image(d1, img)
        ELSE d1

\* Dockerfile.cd: a relative path is resolved against workdir, then set_pwd
cd(d, path) ==
    LET base == IF endswith(d.workdir, <<SLASH>>) THEN d.workdir
                ELSE d.workdir \o <<SLASH>>
        pwd == IF startswith(path, <<SLASH>>) THEN path ELSE base \o path
    IN  set_pwd(d, pwd)

----------------------------------------------------------------------------
(* command module *)

is_hidden(line) == line # <<>> /\ line[1] = SP

flatten(line) == lstrip(line)

is_dockerfile(cmd) == is_command(cmd)

----------------------------------------------------------------------------
(* Docker (docker.py).  The Docker object is the Dockerfile record with   *)
(* two more fields: ops, the events of the call so far, and ret.           *)

RunLine(cmd) == <<"RUN", SP>> \o cmd

ErrorLine(cmd) == <<HASH, SP, "(error)", SP, "RUN", SP>> \o cmd

MULTI_TOKENS == {"&&", "||", ";", "|", ">", "<"}

\* is_multi_command with the membership test turned round: cmd in tokens
is_multi_command_whole(cmd) == Len(cmd) = 1 /\ cmd[1] \in MULTI_TOKENS

is_multi_command(cmd) == \E i \in 1..Len(cmd) : cmd[i] \in MULTI_TOKENS

\* the event ev, with the log and the workdir it found
Event(d, ev, line, rc) ==
    [d EXCEPT !.ops = Append(@, [ev |-> ev, line |-> line, rc |-> rc,
                                 log |-> d.lines, wd |-> d.workdir])]

\* self.dockerfile.append(line), as called by Docker
df_append(d, line) == append(Event(d, "append", line, 0), line)

\* self.dockerfile.cd(path), as called by Docker
df_cd(d, path) == cd(Event(d, "cd", path, 0), path)

\* the lines a build rejects: a build exits non-zero iff the log holds one
FailingLines == { <<"ENV", SP, "a">>, <<"WORKDIR", SP, SLASH, "b">> }

Builds(ls) == ls # <<>> /\ \A i \in 1..Len(ls) : ls[i] \notin FailingLines

\* the exit status of `docker build`: rc, or what the log decides when det
BuildExit(d, det, rc) == IF det THEN (IF Builds(d.lines) THEN 0 ELSE 1) ELSE rc

build(d, det, rc) ==
    LET code == BuildExit(d, det, rc)
        d1 == Event(d, "build", <<>>, code)
    IN  IF code # 0
        THEN LET d2 == remove_last_command(Event(d1, "rollback", <<>>, 0))
             IN  [d2 EXCEPT !.ret = IF d2.err = "none" THEN "False" ELSE "raised"]
        ELSE [d1 EXCEPT !.ret = "True"]

\* run with the container started at "/" whatever workdir is
run_at_root(d, cmd, rc) ==
    [d EXCEPT !.ops = Append(@, [ev |-> "run", line |-> cmd, rc |-> rc,
                                 log |-> d.lines, wd |-> <<SLASH>>])]

\* Docker.run: the container run of cmd in the current workdir, exit status rc
run(d, cmd, rc) == Event(d, "run", cmd, rc)

\* input with self.build() moved under `if not is_hidden`
input_build_if_visible(d, line, rcRun, det, rcBuild) ==
    LET hidden == is_hidden(line)
        cmd == lstrip(line)
        flat_cmd == flatten(line)
    IN  IF line = <<>> THEN d
        ELSE IF startswith(cmd, <<HASH>>)
             THEN (IF ~hidden THEN df_append(d, cmd) ELSE d)
        ELSE IF is_dockerfile(cmd)
             THEN IF ~hidden /\ startswith(cmd, <<"WORKDIR", SP>>)
                  THEN df_cd(df_append(d, cmd),
                             strip(SubSeq(flat_cmd, 3, Len(flat_cmd))))
                  ELSE IF ~hidden THEN build(df_append(d, cmd), det, rcBuild) ELSE d
        ELSE IF startswith(cmd, <<"cd", SP>>) /\ ~is_multi_command(cmd)
             THEN df_cd(d, strip(SubSeq(cmd, 3, Len(cmd))))
        ELSE LET d1 == run(d, cmd, rcRun)
             IN  IF rcRun = 0
                 THEN IF ~hidden
                      THEN build(df_append(df_append(d1, <<>>), RunLine(cmd)),
                                 det, rcBuild)
                      ELSE d1
                 ELSE df_append(d1, ErrorLine(cmd))

\* input without the blank line before the RUN line
input_no_separator(d, line, rcRun, det, rcBuild) ==
    LET hidden == is_hidden(line)
        cmd == lstrip(line)
        flat_cmd == flatten(line)
    IN  IF line = <<>> THEN d
        ELSE IF startswith(cmd, <<HASH>>)
             THEN (IF ~hidden THEN df_append(d, cmd) ELSE d)
        ELSE IF is_dockerfile(cmd)
             THEN IF ~hidden /\ startswith(cmd, <<"WORKDIR", SP>>)
                  THEN df_cd(df_append(d, cmd),
                             strip(SubSeq(flat_cmd, 3, Len(flat_cmd))))
                  ELSE build(IF ~hidden THEN df_append(d, cmd) ELSE d, det, rcBuild)
        ELSE IF startswith(cmd, <<"cd", SP>>) /\ ~is_multi_command(cmd)
             THEN df_cd(d, strip(SubSeq(cmd, 3, Len(cmd))))
        ELSE LET d1 == run(d, cmd, rcRun)
             IN  IF rcRun = 0
                 THEN IF ~hidden
                      THEN build(df_append(d1, RunLine(cmd)),
                                 det, rcBuild)
                      ELSE d1
                 ELSE df_append(d1, ErrorLine(cmd))

\* input that records a failed command only when it is not hidden
input_error_if_visible(d, line, rcRun, det, rcBuild) ==
    LET hidden == is_hidden(line)
        cmd == lstrip(line)
        flat_cmd == flatten(line)
    IN  IF line = <<>> THEN d
        ELSE IF startswith(cmd, <<HASH>>)
             THEN (IF ~hidden THEN df_append(d, cmd) ELSE d)
        ELSE IF is_dockerfile(cmd)
             THEN IF ~hidden /\ startswith(cmd, <<"WORKDIR", SP>>)
                  THEN df_cd(df_append(d, cmd),
                             strip(SubSeq(flat_cmd, 3, Len(flat_cmd))))
                  ELSE build(IF ~hidden THEN df_append(d, cmd) ELSE d, det, rcBuild)
        ELSE IF startswith(cmd, <<"cd", SP>>) /\ ~is_multi_command(cmd)
             THEN df_cd(d, strip(SubSeq(cmd, 3, Len(cmd))))
        ELSE LET d1 == run(d, cmd, rcRun)
             IN  IF rcRun = 0
                 THEN IF ~hidden
                      THEN build(df_append(df_append(d1, <<>>), RunLine(cmd)),
                                 det, rcBuild)
                      ELSE d1
                 ELSE IF ~hidden THEN df_append(d1, ErrorLine(cmd)) ELSE d1

\* input that builds after a hidden command that ran
input_build_after_hidden(d, line, rcRun, det, rcBuild) ==
    LET hidden == is_hidden(line)
        cmd == lstrip(line)
        flat_cmd == flatten(line)
    IN  IF line = <<>> THEN d
        ELSE IF startswith(cmd, <<HASH>>)
             THEN (IF ~hidden THEN df_append(d, cmd) ELSE d)
        ELSE IF is_dockerfile(cmd)
             THEN IF ~hidden /\ startswith(cmd, <<"WORKDIR", SP>>)
                  THEN df_cd(df_append(d, cmd),
                             strip(SubSeq(flat_cmd, 3, Len(flat_cmd))))
                  ELSE build(IF ~hidden THEN df_append(d, cmd) ELSE d, det, rcBuild)
        ELSE IF startswith(cmd, <<"cd", SP>>) /\ ~is_multi_command(cmd)
             THEN df_cd(d, strip(SubSeq(cmd, 3, Len(cmd))))
        ELSE LET d1 == run(d, cmd, rcRun)
             IN  IF rcRun = 0
                 THEN IF ~hidden
                      THEN build(df_append(df_append(d1, <<>>), RunLine(cmd)),
                                 det, rcBuild)
                      ELSE build(d1, det, rcBuild)
                 ELSE df_append(d1, ErrorLine(cmd))

\* input that records a comment whether hidden or not
input_comment_always(d, line, rcRun, det, rcBuild) ==
    LET hidden == is_hidden(line)
        cmd == lstrip(line)
        flat_cmd == flatten(line)
    IN  IF line = <<>> THEN d
        ELSE IF startswith(cmd, <<HASH>>)
             THEN df_append(d, cmd)
        ELSE IF is_dockerfile(cmd)
             THEN IF ~hidden /\ startswith(cmd, <<"WORKDIR", SP>>)
                  THEN df_cd(df_append(d, cmd),
                             strip(SubSeq(flat_cmd, 3, Len(flat_cmd))))
                  ELSE build(IF ~hidden THEN df_append(d, cmd) ELSE d, det, rcBuild)
        ELSE IF startswith(cmd, <<"cd", SP>>) /\ ~is_multi_command(cmd)
             THEN df_cd(d, strip(SubSeq(cmd, 3, Len(cmd))))
        ELSE LET d1 == run(d, cmd, rcRun)
             IN  IF rcRun = 0
                 THEN IF ~hidden
                      THEN build(df_append(df_append(d1, <<>>), RunLine(cmd)),
                                 det, rcBuild)
                      ELSE d1
                 ELSE df_append(d1, ErrorLine(cmd))

\* input without the comment branch: a comment falls through
input_comment_unchecked(d, line, rcRun, det, rcBuild) ==
    LET hidden == is_hidden(line)
        cmd == lstrip(line)
        flat_cmd == flatten(line)
    IN  IF line = <<>> THEN d
        ELSE IF is_dockerfile(cmd)
             THEN IF ~hidden /\ startswith(cmd, <<"WORKDIR", SP>>)
                  THEN df_cd(df_append(d, cmd),
                             strip(SubSeq(flat_cmd, 3, Len(flat_cmd))))
                  ELSE build(IF ~hidden THEN df_append(d, cmd) ELSE d, det, rcBuild)
        ELSE IF startswith(cmd, <<"cd", SP>>) /\ ~is_multi_command(cmd)
             THEN df_cd(d, strip(SubSeq(cmd, 3, Len(cmd))))
        ELSE LET d1 == run(d, cmd, rcRun)
             IN  IF rcRun = 0
                 THEN IF ~hidden
                      THEN build(df_append(df_append(d1, <<>>), RunLine(cmd)),
                                 det, rcBuild)
                      ELSE d1
                 ELSE df_append(d1, ErrorLine(cmd))

input(d, line, rcRun, det, rcBuild) ==
    LET hidden == is_hidden(line)
        cmd == lstrip(line)
        flat_cmd == flatten(line)
    IN  IF line = <<>> THEN d
        ELSE IF startswith(cmd, <<HASH>>)
             THEN (IF ~hidden THEN df_append(d, cmd) ELSE d)
        ELSE IF is_dockerfile(cmd)
             THEN IF ~hidden /\ startswith(cmd, <<"WORKDIR", SP>>)
                  THEN df_cd(df_append(d, cmd),
                             strip(SubSeq(flat_cmd, 3, Len(flat_cmd))))
                  ELSE build(IF ~hidden THEN df_append(d, cmd) ELSE d, det, rcBuild)
        ELSE IF startswith(cmd, <<"cd", SP>>) /\ ~is_multi_command(cmd)
             THEN df_cd(d, strip(SubSeq(cmd, 3, Len(cmd))))
        ELSE LET d1 == run(d, cmd, rcRun)
             IN  IF rcRun = 0
                 THEN IF ~hidden
                      THEN build(df_append(df_append(d1, <<>>), RunLine(cmd)),
                                 det, rcBuild)
                      ELSE d1
                 ELSE df_append(d1, ErrorLine(cmd))

----------------------------------------------------------------------------
(* Keyboard (keyboard.py).  kb.lines is the local list `lines` of         *)
(* Keyboard.input; kb.state is "reading" while input() waits for a        *)
(* physical line, "returned" with the string in kb.out, or "raised".      *)

NotTyped == <<"<nothing typed>">>

NoKeys == [lines |-> <<>>, state |-> "reading", out |-> <<>>,
           last |-> NotTyped, first |-> FALSE]

EXIT_WORDS == { <<"exit">>, <<"quit">> }

INDENT == <<SP, SP, SP, SP>>

\* processed_lines: the first line as it is, the others indented
Indented(ls) ==
    [i \in 1..Len(ls) |-> IF i = 1 THEN ls[i] ELSE INDENT \o ls[i]]

\* one pass of the loop of Keyboard.input without `not lines` in the exit test
keyboard_input_exit_anywhere(k, p) ==
    LET cmd == rstrip(p)
        first == k.lines = <<>>
        ls == Append(k.lines, cmd)
        full == strip(join(Indented(ls)))
    IN  IF cmd \in EXIT_WORDS
        THEN [k EXCEPT !.state = "raised", !.last = p, !.first = first]
        ELSE IF endswith(cmd, <<BS>>)
        THEN [lines |-> Append(k.lines, SubSeq(cmd, 1, Len(cmd) - 1)),
              state |-> "reading", out |-> <<>>, last |-> p, first |-> first]
        ELSE IF full # <<>>
        THEN [lines |-> ls, state |-> "returned", out |-> full,
              last |-> p, first |-> first]
        ELSE [lines |-> <<>>, state |-> "reading", out |-> <<>>,
              last |-> p, first |-> first]

\* one pass of the loop of Keyboard.input, for the physical line p that the
\* builtin input returns: raise, go on reading, return, or start again
keyboard_input(k, p) ==
    LET cmd == rstrip(p)
        first == k.lines = <<>>
        ls == Append(k.lines, cmd)
        full == strip(join(Indented(ls)))
    IN  IF first /\ cmd \in EXIT_WORDS
        THEN [k EXCEPT !.state = "raised", !.last = p, !.first = first]
        ELSE IF endswith(cmd, <<BS>>)
        THEN [lines |-> Append(k.lines, SubSeq(cmd, 1, Len(cmd) - 1)),
              state |-> "reading", out |-> <<>>, last |-> p, first |-> first]
        ELSE IF full # <<>>
        THEN [lines |-> ls, state |-> "returned", out |-> full,
              last |-> p, first |-> first]
        ELSE [lines |-> <<>>, state |-> "reading", out |-> <<>>,
              last |-> p, first |-> first]

\* the physical lines typed at the prompt
PhysicalLines == {
    <<"exit">>, <<"quit">>, <<"exit", SP>>, <<SP, "exit">>,
    <<>>, <<SP>>,
    <<"a">>, <<SP, "a">>,
    <<"a", SP, BS>>, <<"b", BS>>, <<BS>>, <<"exit", BS>>
}

----------------------------------------------------------------------------
(* The session (dockershit.py).  The loop of run_interactive_session keeps *)
(* its own lines, current_dir and rebuild; a session is the record         *)
(* [lines, image, workdir, file, err, ops, ret] with image for args.from_  *)
(* and workdir for current_dir.  err is "none" at the prompt, "break" when *)
(* the loop has ended, or the exception that ended the process.            *)

DOCKER_COMMANDS == {"ADD", "COPY", "ENV", "EXPOSE", "LABEL", "USER", "VOLUME",
                    "WORKDIR", "CMD", "ENTRYPOINT"}

\* what input_fn does instead of returning a line
EOF == <<"<EOFError>">>
INT == <<"<KeyboardInterrupt>">>

load_dockerfile(f) == IF f # NoFile THEN splitlines(f) ELSE <<>>

write_dockerfile(s) ==
    [Event(s, "write", <<>>, 0) EXCEPT !.file = join(s.lines) \o <<NL>>]

\* build_image: sys.exit(result.returncode) when the build exits non-zero
build_image(s, rc) ==
    LET s1 == Event(s, "build", <<>>, rc)
    IN  IF rc # 0 THEN [s1 EXCEPT !.err = "SystemExit"] ELSE s1

\* run_fn(["docker", "run", "--rm", "-w", current_dir, ..., cmd])
run_fn(s, cmd, rc) == Event(s, "run", cmd, rc)

is_dockerfile_cmd(cmd) ==
    LET parts == split1(strip(cmd))
    IN  parts # <<>> /\ Len(parts[1]) = 1 /\ parts[1][1] \in DOCKER_COMMANDS

\* lines.append(line) in the loop
loop_append(s, line) == [Event(s, "append", line, 0) EXCEPT !.lines = Append(@, line)]

\* the top of the loop without write_dockerfile
loop_top_no_write(s, rebuild, rcBuild) ==
    IF rebuild THEN build_image(s, rcBuild) ELSE s

\* the top of the loop: write, build when rebuild is set, up to the prompt
loop_top(s, rebuild, rcBuild) ==
    LET w == write_dockerfile(s)
    IN  IF rebuild THEN build_image(w, rcBuild) ELSE w

\* run_interactive_session up to the first prompt, for a path holding f
startup(f, from_, rcBuild) ==
    LET loaded == load_dockerfile(f)
        ls == IF \E i \in 1..Len(loaded) : startswith(loaded[i], <<"FROM">>)
              THEN loaded ELSE <<FromLine(from_)>> \o loaded
        s == [lines |-> ls, image |-> from_, workdir |-> <<SLASH>>, file |-> f,
              err |-> "none", ops |-> <<>>, ret |-> "none"]
    IN  loop_top(s, TRUE, rcBuild)

\* one pass of the loop that takes exit and quit for commands
iteration_no_exit(s, entry, stub, rcRun, rcBuild) ==
    LET cmd == strip(entry)
        s0 == run_fn(s, cmd, rcRun)
        success == rcRun = 0
        moved == startswith(cmd, <<"cd", SP>>) /\ success
        new_dir == SubSeq(cmd, 3, Len(cmd))
        s1 == IF moved
              THEN [loop_append(s0, WorkdirLine(new_dir)) EXCEPT !.workdir = new_dir]
              ELSE s0
    IN  IF entry \in {EOF, INT} THEN [s EXCEPT !.err = "break"]
        ELSE IF cmd = <<>> THEN loop_top(s, FALSE, rcBuild)
        ELSE IF is_dockerfile_cmd(cmd) THEN loop_top(loop_append(s, cmd), FALSE, rcBuild)
        ELSE IF ~stub THEN [s0 EXCEPT !.err = "AttributeError"]
        ELSE IF startswith(cmd, <<SP>>) THEN loop_top(s1, moved, rcBuild)
        ELSE IF success THEN loop_top(loop_append(s1, RunLine(cmd)), TRUE, rcBuild)
        ELSE loop_top(loop_append(s1, ErrorLine(cmd)), moved, rcBuild)

\* one pass of the loop, from the prompt to the next prompt or to the end:
\* entry is what input_fn returns or raises; stub tells whether the result
\* of run_fn has the attribute statuscode (that of subprocess.run has not),
\* rcRun is its value
iteration(s, entry, stub, rcRun, rcBuild) ==
    LET cmd == strip(entry)
        s0 == run_fn(s, cmd, rcRun)
        success == rcRun = 0
        moved == startswith(cmd, <<"cd", SP>>) /\ success
        new_dir == SubSeq(cmd, 3, Len(cmd))
        s1 == IF moved
              THEN [loop_append(s0, WorkdirLine(new_dir)) EXCEPT !.workdir = new_dir]
              ELSE s0
    IN  IF entry \in {EOF, INT} THEN [s EXCEPT !.err = "break"]
        ELSE IF cmd = <<>> THEN loop_top(s, FALSE, rcBuild)
        ELSE IF cmd \in EXIT_WORDS THEN [s EXCEPT !.err = "break"]
        ELSE IF is_dockerfile_cmd(cmd) THEN loop_top(loop_append(s, cmd), FALSE, rcBuild)
        ELSE IF ~stub THEN [s0 EXCEPT !.err = "AttributeError"]
        ELSE IF startswith(cmd, <<SP>>) THEN loop_top(s1, moved, rcBuild)
        ELSE IF success THEN loop_top(loop_append(s1, RunLine(cmd)), TRUE, rcBuild)
        ELSE loop_top(loop_append(s1, ErrorLine(cmd)), moved, rcBuild)

----------------------------------------------------------------------------
(* Inputs *)

Comment == <<HASH, SP, "c">>

Inputs == {
    Comment,                                \* "# c"
    <<SP>> \o Comment,                      \* " # c"
    <<"ENV", SP, "a">>,
    <<SP, "ENV", SP, "a">>,
    <<"WORKDIR", SP, SLASH, "a">>,
    <<SP, "WORKDIR", SP, SLASH, "a">>,
    <<"cd", SP, SLASH, "a">>,
    <<"cd", SP, "b">>,
    <<"cd", SP, SLASH, "a", SP, "&&", SP, "b">>,
    <<"a">>,
    <<SP, "a">> }

\* the lines typed in a followed session: a WORKDIR directive, another
\* directive (visible and hidden), comments (one that goes on with a directive
\* keyword, one that goes on with cd), a command
SessionInputs == {
    <<"WORKDIR", SP, SLASH, "a">>,
    <<"ENV", SP, "a">>,
    <<SP, "ENV", SP, "a">>,
    Comment,
    <<HASH, SP, "ENV", SP, "a">>,
    <<HASH, "cd", SP, SLASH, "a">>,
    <<"a">>
}

RC == {0, 1}

\* files a session may find at Dockerfile.path
FileFromWorkdir == <<"FROM", SP, "y", NL, "WORKDIR", SP, SLASH, "a", NL>>

FileNoFrom == <<"RUN", SP, "a", NL>>

FileScenario ==
    <<"FROM", SP, "x", NL, "RUN", SP, "a", NL, NL, HASH, SP, "c", NL, NL,
      "RUN", SP, "b", NL>>

ImageArgs == { None, <<"x">> }

\* what input_fn returns or raises at the prompt
LoopEntries == {
    EOF, INT, <<"exit">>, <<>>,
    <<"a">>, <<SP, "a">>,
    <<"ENV", SP, "a">>,
    <<"cd", SP, SLASH, "a">>
}

\* the sessions started: <<file at the path, args.from_>>
LoopCases == { <<NoFile, DEFAULT_IMAGE>>, <<NoFile, <<"x">> >>,
               <<FileFromWorkdir, DEFAULT_IMAGE>> }

\* the constructions a session starts from: <<file content, image argument>>
InitCases == {
    <<NoFile, None>>, <<NoFile, <<"x">> >>,
    <<FileFromWorkdir, None>>, <<FileFromWorkdir, <<"x">> >>,
    <<FileNoFrom, None>> }

FileInitCases == { <<NoFile, None>>, <<NoFile, <<"x">> >>, <<FileScenario, None>> }

\* the physical lines of the files handed to Dockerfile(path): a base-image
\* line, a WORKDIR line, a line that ends with a backslash, a line that can
\* continue it, a comment, a blank line
LoadLines == {
    <<"FROM", SP, "y">>,
    <<"WORKDIR", SP, SLASH, "a">>,
    <<"RUN", SP, "a", SP, BS>>,
    <<SP, "b">>,
    <<>>
}

\* path.write_text("\n".join(lines) + "\n"), for the lines a file is made of
FileOf(ls) == join(ls) \o <<NL>>

\* the files: none, an empty one, and every file of 1..MaxLoadLines lines
LoadFiles ==
    {NoFile, <<>>} \cup
    UNION { {FileOf(ls) : ls \in [1..k -> LoadLines]} : k \in 1..MaxLoadLines }

LoadCases == LoadFiles \X ImageArgs

\* a command of two physical lines as Keyboard.input returns it, recorded
KeyedLine == <<"RUN", SP, "a", NL, SP, "b">>

\* the lines handed to Dockerfile.append directly
AppendLines == { <<"RUN", SP, "a">>, <<"RUN", SP, "b">>, <<>>, Comment }

Paths == { <<SLASH, "a">> }

----------------------------------------------------------------------------
(* State machine *)

Obj == [lines |-> lines, image |-> image, workdir |-> workdir, file |-> file,
        err |-> "none", ops |-> <<>>, ret |-> "none"]

NoSession == [on |-> FALSE, typed |-> <<>>, builds |-> <<>>, clean |-> TRUE]

NewSession == [on |-> TRUE, typed |-> <<>>, builds |-> <<>>, clean |-> TRUE]

\* the session after the call c that left d: the line typed, the number of
\* builds it invoked, and whether every process so far exited zero
Logged(d, c) ==
    IF ~session.on THEN session
    ELSE [on |-> TRUE,
          typed |-> Append(session.typed, c.arg),
          builds |-> Append(session.builds,
                            Cardinality({i \in 1..Len(d.ops) : d.ops[i].ev = "build"})),
          clean |-> session.clean /\ \A i \in 1..Len(d.ops) : d.ops[i].rc = 0]

Commit(d, c) ==
    /\ lines' = d.lines
    /\ image' = d.image
    /\ workdir' = d.workdir
    /\ file' = d.file
    /\ err' = d.err
    /\ ops' = d.ops
    /\ ret' = d.ret
    /\ call' = c
    /\ pre' = lines
    /\ prev' = [workdir |-> workdir, image |-> image]
    /\ session' = Logged(d, c)
    /\ kb' = kb

\* the state Dockerfile(path, image) leaves, for a path holding c[1] and image c[2]
Constructed(c) ==
    LET d == Construct(c[1], c[2])
    IN  /\ d.err = "none"
        /\ lines = d.lines
        /\ image = d.image
        /\ workdir = d.workdir
        /\ file = d.file
        /\ err = "none"
        /\ call = [op |-> "init", arg |-> c[2]]
        /\ pre = <<>>
        /\ ops = <<>>
        /\ ret = "none"
        /\ prev = [workdir |-> <<SLASH>>, image |-> c[2]]

Init == kb = NoKeys /\ session = NoSession /\ \E c \in InitCases : Constructed(c)

InitDet == Init /\ Builds(lines)

InitFile == kb = NoKeys /\ session = NoSession /\ \E c \in FileInitCases : Constructed(c)

\* the state Dockerfile(path, image) leaves or raises in
InitLoad ==
    /\ session = NoSession
    /\ kb = NoKeys
    /\ \E c \in LoadCases :
           LET d == Construct(c[1], c[2])
           IN  /\ lines = d.lines
               /\ image = d.image
               /\ workdir = d.workdir
               /\ file = d.file
               /\ err = d.err
               /\ call = [op |-> "init", arg |-> c[2]]
               /\ pre = <<>>
               /\ ops = <<>>
               /\ ret = "none"
               /\ prev = [workdir |-> <<SLASH>>, image |-> c[2]]

\* Keyboard.input() is called on a Dockerfile just constructed
InitKeys == session = NoSession /\ kb = NoKeys /\ Constructed(<<NoFile, None>>)

\* run_interactive_session at its first prompt, or ended by the first build
InitLoop ==
    /\ session = NewSession
    /\ kb = NoKeys
    /\ \E c \in LoopCases, rcBuild \in RC :
           LET s == startup(c[1], c[2], rcBuild)
           IN  /\ lines = s.lines
               /\ image = s.image
               /\ workdir = s.workdir
               /\ file = s.file
               /\ err = s.err
               /\ ops = s.ops
               /\ ret = s.ret
               /\ call = [op |-> "startup", arg |-> c[2]]
               /\ pre = <<>>
               /\ prev = [workdir |-> <<SLASH>>, image |-> c[2]]

\* a session followed from a fresh log: no file at the path, no image given
InitSession == kb = NoKeys /\ session = NewSession /\ Constructed(<<NoFile, None>>)

\* the bound on the states a call is offered in
Bounded == Len(lines) <= MaxLines /\ Len(workdir) <= MaxWd

\* whether the call started a process of kind ev ("run" or "build")
Started(d, ev) == \E i \in 1..Len(d.ops) : d.ops[i].ev = ev

\* an exit status is drawn only for a process the call starts
Drawn(d, rcRun, rcBuild) ==
    /\ Started(d, "run") \/ rcRun = 0
    /\ Started(d, "build") \/ rcBuild = 0

\* Docker.input(line), the build's exit status being any
Input(line, rcRun, rcBuild) ==
    /\ err = "none"
    /\ LET d == input(Obj, line, rcRun, FALSE, rcBuild)
       IN  /\ Bounded
           /\ Drawn(d, rcRun, rcBuild)
           /\ Commit(d, [op |-> "input", arg |-> line])

\* Docker.input(line), the build's exit status being decided by the log alone
InputDet(line, rcRun) ==
    /\ err = "none"
    /\ LET d == input(Obj, line, rcRun, TRUE, 0)
       IN  /\ Bounded
           /\ Drawn(d, rcRun, 0)
           /\ Commit(d, [op |-> "input", arg |-> line])

\* Docker.input(line) in a followed session
SessionInput(line, rcRun, rcBuild) ==
    /\ err = "none"
    /\ Len(session.typed) < MaxTyped
    /\ LET d == input(Obj, line, rcRun, FALSE, rcBuild)
       IN  /\ Drawn(d, rcRun, rcBuild)
           /\ Commit(d, [op |-> "input", arg |-> line])

\* input(prompt) returns the physical line p to Keyboard.input
Key(p) ==
    /\ kb.state = "reading"
    /\ Len(kb.lines) < MaxKeyLines
    /\ kb' = keyboard_input(kb, p)
    /\ UNCHANGED <<lines, image, workdir, file, err, call, pre, ops, ret, prev,
                   session>>

\* one pass of the loop of run_interactive_session
Iteration(entry, stub, rcRun, rcBuild) ==
    /\ err = "none"
    /\ Len(session.typed) < MaxTyped
    /\ LET s == iteration(Obj, entry, stub, rcRun, rcBuild)
       IN  /\ Drawn(s, rcRun, rcBuild)
           /\ Started(s, "run") \/ stub
           /\ stub \/ rcRun = 0
           /\ Commit(s, [op |-> "line", arg |-> entry])

DfAppend(line) ==
    /\ err = "none"
    /\ Len(lines) < MaxFileLines
    /\ Commit(append(Obj, line), [op |-> "append", arg |-> line])

DfSetImage(img) ==
    /\ err = "none"
    /\ Commit(set_image(Obj, img), [op |-> "set_image", arg |-> img])

DfSetPwd(pwd) ==
    /\ err = "none"
    /\ Len(lines) < MaxFileLines
    /\ Commit(set_pwd(Obj, pwd), [op |-> "set_pwd", arg |-> pwd])

\* write(), then Dockerfile(path) on the file written, with no image argument
Reopen ==
    /\ err = "none"
    /\ LET w == write(Obj)
       IN  /\ Len(w.file) <= MaxFileLen
           /\ Commit(Construct(w.file, None), [op |-> "reopen", arg |-> <<>>])

DfRemoveLastCommand ==
    /\ err = "none"
    /\ Commit(remove_last_command(Obj), [op |-> "remove_last_command", arg |-> <<>>])

Next == \E line \in Inputs, rcRun \in RC, rcBuild \in RC : Input(line, rcRun, rcBuild)

NextDet == \E line \in Inputs, rcRun \in RC : InputDet(line, rcRun)

NextFile ==
    \/ \E line \in AppendLines : DfAppend(line)
    \/ \E img \in ImageArgs \ {None} : DfSetImage(img)
    \/ \E pwd \in Paths : DfSetPwd(pwd)
    \/ DfRemoveLastCommand

NextSession ==
    \E line \in SessionInputs, rcRun \in RC, rcBuild \in RC :
        SessionInput(line, rcRun, rcBuild)

NextLoad ==
    \/ Reopen
    \/ DfAppend(KeyedLine)
    \/ \E img \in ImageArgs \ {None} : DfSetImage(img)

NextKeys == \E p \in PhysicalLines : Key(p)

NextLoop ==
    \E entry \in LoopEntries, stub \in BOOLEAN, rcRun \in RC, rcBuild \in RC :
        Iteration(entry, stub, rcRun, rcBuild)

Spec == Init /\ [][Next]_vars

SpecDet == InitDet /\ [][NextDet]_vars

SpecFile == InitFile /\ [][NextFile]_vars

SpecSession == InitSession /\ [][NextSession]_vars

SpecLoad == InitLoad /\ [][NextLoad]_vars

SpecKeys == InitKeys /\ [][NextKeys]_vars

SpecLoop == InitLoop /\ [][NextLoop]_vars

----------------------------------------------------------------------------
(* Properties *)

IsInput == call.op = "input"

Hidden == is_hidden(call.arg)

Cmd == lstrip(call.arg)

\* how many events of kind ev the last call made
Count(ev) == Cardinality({i \in 1..Len(ops) : ops[i].ev = ev})

Written(ls) == join(ls) \o <<NL>>

IsFrom(line) == startswith(Upper(line), <<"FROM", SP>>)

\* the argument of the last WORKDIR line of ls, "/" if there is none
LastWorkdir(ls) ==
    LET a == Args(ls, "WORKDIR")
    IN  IF a = <<>> THEN <<SLASH>> ELSE a[Len(a)]

\* the last call was Docker.input of a native directive other than WORKDIR
IsOtherDirective ==
    /\ IsInput
    /\ ~startswith(Cmd, <<HASH>>)
    /\ is_command(Cmd)
    /\ Cmd[1] # "WORKDIR"

\* C1: with build outcomes decided by the log alone and an initial log that
\* builds, the log left when Docker.input returns is one whose build succeeds.
C1_LogAlwaysBuilds == Builds(lines)

\* C2: lines[0] is the base-image (FROM) directive and exactly one base-image
\* directive exists, in every reachable state of the log.
C2_FromFirstAndUnique ==
    /\ lines # <<>>
    /\ IsFrom(lines[1])
    /\ Cardinality({i \in 1..Len(lines) : IsFrom(lines[i])}) = 1

\* C3: workdir is the argument of the last WORKDIR directive in lines, or "/"
\* when lines holds none.
C3_WorkdirMirrorsLog == workdir = LastWorkdir(lines)

\* C4: after construction and after every mutation the persisted file is the
\* in-memory lines joined by newlines, with one trailing newline.
C4_FileMirrorsLog == file = Written(lines)

\* C5: for every input with a leading space, whatever the run and build
\* outcomes, the log after Docker.input equals the log before it.
C5_HiddenLeavesLog == (IsInput /\ Hidden) => lines = pre

\* C6: whenever remove_last_command runs, the log holds the base-image line
\* plus an entry appended by the input being processed, and that entry is the
\* last meaningful line of the log.
C6_RollbackOnlyOfOwnEntry ==
    \A i \in 1..Len(ops) :
        ops[i].ev = "rollback" =>
            /\ Len(pre) >= 1
            /\ Len(PopInert(ops[i].log)) > Len(pre)
            /\ \E j \in 1..(i - 1) :
                   /\ ops[j].ev = "append"
                   /\ ops[j].line = ops[i].log[Len(PopInert(ops[i].log))]

ScenarioLog ==
    << FromLine(<<"x">>), RunLine(<<"a">>), <<>>, Comment, <<>>, RunLine(<<"b">>) >>

IsRollback == call.op = "remove_last_command" /\ err = "none"

\* C7 (as claimed): rollback removes the last meaningful entry together with
\* the blank and comment lines attached to it, above it as well as below it:
\* [FROM x, RUN a, "", "# c", "", RUN b] becomes [FROM x, RUN a].
C7_RollbackStripsAttachedLines ==
    IsRollback =>
        /\ pre = ScenarioLog => lines = << FromLine(<<"x">>), RunLine(<<"a">>) >>
        /\ \A n \in 1..Len(pre) :
               (matters(pre[n]) /\ \A j \in (n + 1)..Len(pre) : ~matters(pre[j]))
                   => lines = PopInert(SubSeq(pre, 1, n - 1))

\* C7 (amended): rollback removes the blank and comment lines at the end of
\* the log and the last meaningful entry, and keeps every line before that
\* entry, the blank and comment lines directly above it included:
\* [FROM x, RUN a, "", "# c", "", RUN b] becomes [FROM x, RUN a, "", "# c", ""].
C7_RollbackKeepsLinesAbove ==
    IsRollback =>
        /\ pre = ScenarioLog =>
               lines = << FromLine(<<"x">>), RunLine(<<"a">>), <<>>, Comment, <<>> >>
        /\ Len(lines) < Len(pre)
        /\ lines = SubSeq(pre, 1, Len(lines))
        /\ matters(pre[Len(lines) + 1])
        /\ \A j \in (Len(lines) + 2)..Len(pre) : ~matters(pre[j])

\* C7 witness: the rollback of the scenario log has run.
C7_Witness ==
    /\ IsRollback
    /\ pre = ScenarioLog
    /\ lines = << FromLine(<<"x">>), RunLine(<<"a">>), <<>>, Comment, <<>> >>

\* C8: on a log whose tail is a meaningful line m followed by k inert lines,
\* remove_last_command leaves the prefix before m, for every k >= 0, and
\* persists it.
C8_RollbackLeavesPrefix ==
    call.op = "remove_last_command" =>
        \A k \in 0..(Len(pre) - 1) :
            ( /\ matters(pre[Len(pre) - k])
              /\ \A j \in (Len(pre) - k + 1)..Len(pre) : ~matters(pre[j]) )
            => /\ err = "none"
               /\ lines = SubSeq(pre, 1, Len(pre) - k - 1)
               /\ file = Written(lines)

\* C8 witness: a rollback has popped two inert lines and the entry before them.
C8_Witness ==
    /\ IsRollback
    /\ Len(pre) >= 4
    /\ ~matters(pre[Len(pre)])
    /\ ~matters(pre[Len(pre) - 1])
    /\ matters(pre[Len(pre) - 2])
    /\ lines = SubSeq(pre, 1, Len(pre) - 3)

\* C9: Docker.build returns False and rolls the log back exactly once when the
\* build exits non-zero, and returns True leaving the log unchanged when the
\* build exits zero.
C9_BuildReturns ==
    \A i \in 1..Len(ops) :
        ops[i].ev = "build" =>
            IF ops[i].rc # 0
            THEN ret = "False" /\ Count("rollback") = 1 /\ Len(lines) < Len(ops[i].log)
            ELSE ret = "True" /\ Count("rollback") = 0 /\ lines = ops[i].log

\* C10: for a native directive other than WORKDIR, hidden or not, Docker.input
\* invokes the Builder exactly once and runs no container command; the line is
\* appended to the log before the build iff it is not hidden.
C10_DirectiveBuildsOnce ==
    IsOtherDirective =>
        /\ Count("build") = 1
        /\ Count("run") = 0
        /\ Count("append") = (IF Hidden THEN 0 ELSE 1)
        /\ IF Hidden
           THEN ops[1].ev = "build" /\ ops[1].log = pre
           ELSE /\ ops[1].ev = "append" /\ ops[1].line = Cmd /\ ops[1].log = pre
                /\ ops[2].ev = "build" /\ ops[2].log = Append(pre, Cmd)

\* C10 witness: a hidden directive has been built without being appended.
C10_Witness ==
    /\ IsOtherDirective
    /\ Hidden
    /\ Count("build") = 1
    /\ ret = "True"
    /\ lines = pre

\* the last call was Docker.input of a WORKDIR directive
IsWorkdirDirective ==
    /\ IsInput
    /\ ~startswith(Cmd, <<HASH>>)
    /\ is_command(Cmd)
    /\ startswith(Cmd, <<"WORKDIR", SP>>)

\* the argument of the directive or cd the last call was given
Arg == strip(SubSeq(Cmd, 3, Len(Cmd)))

\* C11: for a non-hidden WORKDIR directive, workdir becomes the directive's
\* argument, the log gains exactly one line (the WORKDIR line), and the
\* Builder is not invoked.
C11_WorkdirDirectiveOneLine ==
    (IsWorkdirDirective /\ ~Hidden) =>
        /\ workdir = Arg
        /\ lines = Append(pre, Cmd)
        /\ Count("build") = 0

\* C12: a hidden WORKDIR directive updates workdir to its argument and is not
\* appended to the log.
C12_HiddenWorkdirUpdates ==
    (IsWorkdirDirective /\ Hidden) =>
        /\ workdir = Arg
        /\ Count("append") = 0

\* the last call was Docker.input of a line that starts with "cd " and is
\* neither a comment nor a directive
IsCdLine ==
    /\ IsInput
    /\ ~startswith(Cmd, <<HASH>>)
    /\ ~is_command(Cmd)
    /\ startswith(Cmd, <<"cd", SP>>)

\* the line holds one of the operators &&, ||, ;, |, >, <
HasOperator == \E i \in 1..Len(Cmd) : Cmd[i] \in {"&&", "||", ";", "|", ">", "<"}

\* a joined with b by a single "/"
Joined(a, b) == IF endswith(a, <<SLASH>>) THEN a \o b ELSE a \o <<SLASH>> \o b

\* C13: for a cd input without shell operators, workdir becomes the argument
\* if it is absolute, or the workdir before the call joined with the argument
\* by a single "/" if it is relative; one WORKDIR line for the new workdir is
\* appended to the log; neither a container run nor the Builder is invoked.
C13_CdMovesWorkdir ==
    (IsCdLine /\ ~HasOperator) =>
        /\ workdir = (IF startswith(Arg, <<SLASH>>) THEN Arg
                      ELSE Joined(prev.workdir, Arg))
        /\ lines = Append(pre, WorkdirLine(workdir))
        /\ Count("run") = 0
        /\ Count("build") = 0

\* a relative cd from /a: "cd b" gives /a/b
C13_Witness ==
    /\ IsCdLine /\ ~HasOperator
    /\ Arg = <<"b">>
    /\ prev.workdir = <<SLASH, "a">>
    /\ workdir = <<SLASH, "a", SLASH, "b">>
    /\ lines = Append(pre, <<"WORKDIR", SP, SLASH, "a", SLASH, "b">>)

\* C14: a line that starts with "cd " and contains a shell operator is handled
\* as a shell command: workdir is unchanged, no WORKDIR line is appended, and
\* when the container run exits zero "RUN <input>" is appended to the log
\* (and is the last line of the log once the build of it succeeds).
C14_CdWithOperatorsIsShell ==
    (IsCdLine /\ HasOperator /\ ~Hidden) =>
        /\ workdir = prev.workdir
        /\ Count("cd") = 0
        /\ \A i \in 1..Len(ops) :
               ops[i].ev = "append" => ~startswith(ops[i].line, <<"WORKDIR">>)
        /\ ops[1].ev = "run" /\ ops[1].line = Cmd /\ ops[1].wd = prev.workdir
        /\ ops[1].rc = 0 =>
               /\ \E i \in 1..Len(ops) :
                      ops[i].ev = "append" /\ ops[i].line = RunLine(Cmd)
               /\ ret = "True" => lines = pre \o << <<>>, RunLine(Cmd) >>

\* "cd /a && b" ran and built at workdir /a: the log ends with its RUN line
C14_Witness ==
    /\ IsCdLine /\ HasOperator /\ ~Hidden
    /\ ops[1].rc = 0
    /\ ret = "True"
    /\ workdir = <<SLASH, "a">>
    /\ lines = pre \o << <<>>, <<"RUN", SP, "cd", SP, SLASH, "a", SP, "&&", SP, "b">> >>

\* the last call was Docker.input of a shell command: not a comment, not a
\* directive, not a cd without operators
IsShell ==
    /\ IsInput
    /\ call.arg # <<>>
    /\ ~startswith(Cmd, <<HASH>>)
    /\ ~is_command(Cmd)
    /\ ~(IsCdLine /\ ~HasOperator)

\* the exit status of the container run of the last call
RunExit == ops[1].rc

\* C15: for a non-hidden shell command whose container run exits zero, input
\* performs, in order, exactly: one container run, the append of a blank line,
\* the append of "RUN <line>", one Builder invocation (followed only by the
\* Builder's own rollback when the build fails); if the build succeeds the log
\* has grown by exactly those two lines.
C15_ShellSuccessSteps ==
    (IsShell /\ ~Hidden /\ RunExit = 0) =>
        /\ Count("run") = 1 /\ Count("append") = 2 /\ Count("build") = 1
        /\ Count("cd") = 0
        /\ ops[1].ev = "run" /\ ops[1].line = Cmd /\ ops[1].log = pre
        /\ ops[2].ev = "append" /\ ops[2].line = <<>> /\ ops[2].log = pre
        /\ ops[3].ev = "append" /\ ops[3].line = <<"RUN", SP>> \o Cmd
        /\ ops[3].log = Append(pre, <<>>)
        /\ ops[4].ev = "build"
        /\ ops[4].log = pre \o << <<>>, <<"RUN", SP>> \o Cmd >>
        /\ IF ops[4].rc = 0
           THEN Len(ops) = 4 /\ lines = pre \o << <<>>, <<"RUN", SP>> \o Cmd >>
           ELSE Len(ops) = 5 /\ ops[5].ev = "rollback"

\* "a" ran and built: the log grew by a blank line and "RUN a"
C15_Witness ==
    /\ IsShell /\ ~Hidden /\ RunExit = 0
    /\ call.arg = <<"a">>
    /\ ops[4].rc = 0
    /\ lines = pre \o << <<>>, <<"RUN", SP, "a">> >>

\* C16: for a shell command whose container run exits non-zero, hidden or
\* not, the log grows by exactly one line, "# (error) RUN <line>", with no
\* blank line before it; the Builder is not invoked and nothing is rolled back.
C16_ShellFailureRecorded ==
    (IsShell /\ RunExit # 0) =>
        /\ lines = Append(pre, <<HASH, SP, "(error)", SP, "RUN", SP>> \o Cmd)
        /\ Count("run") = 1
        /\ Count("build") = 0
        /\ Count("rollback") = 0

\* the hidden command " a" failed and is recorded all the same
C16_Witness ==
    /\ IsShell /\ Hidden /\ RunExit # 0
    /\ lines = Append(pre, <<HASH, SP, "(error)", SP, "RUN", SP, "a">>)

\* C17: for a hidden shell command whose container run exits zero, the
\* container run happens exactly once, the log is unchanged and the Builder is
\* not invoked.
C17_HiddenShellSuccess ==
    (IsShell /\ Hidden /\ RunExit = 0) =>
        /\ Count("run") = 1
        /\ ops[1].ev = "run" /\ ops[1].line = Cmd
        /\ lines = pre
        /\ Count("build") = 0

\* the hidden command " a" ran at a log with more than the FROM line
C17_Witness ==
    /\ IsShell /\ Hidden /\ RunExit = 0
    /\ Cmd = <<"a">>
    /\ Len(pre) > 1
    /\ lines = pre

\* the last call was Docker.input of a comment: the text starts with "#"
IsComment == IsInput /\ startswith(Cmd, <<HASH>>)

\* C19: for a hidden comment input the log, workdir and the base image are
\* unchanged, and neither a container run nor the Builder is invoked.
C19_HiddenCommentNoEffect ==
    (IsComment /\ Hidden) =>
        /\ lines = pre
        /\ workdir = prev.workdir
        /\ image = prev.image
        /\ Count("run") = 0
        /\ Count("build") = 0
        /\ ops = <<>>

\* a hidden comment typed after the workdir had moved
C19_Witness ==
    /\ IsComment /\ Hidden
    /\ prev.workdir # <<SLASH>>
    /\ Len(pre) > 1
    /\ lines = pre /\ workdir = prev.workdir

\* C18: for every non-hidden input whose text starts with "#", whatever
\* follows the "#", the log gains exactly one line, equal to the input, and
\* neither a container run nor the Builder is invoked: the comment test comes
\* before every other classification.
C18_CommentAppendedOnly ==
    (IsComment /\ ~Hidden) =>
        /\ lines = Append(pre, call.arg)
        /\ Len(ops) = 1 /\ ops[1].ev = "append"
        /\ Count("run") = 0
        /\ Count("build") = 0
        /\ Count("cd") = 0
        /\ workdir = prev.workdir

\* the comment "#cd /a", typed at workdir "/", is recorded and moves nothing
C18_Witness ==
    /\ IsComment /\ ~Hidden
    /\ call.arg = <<HASH, "cd", SP, SLASH, "a">>
    /\ lines = Append(pre, <<HASH, "cd", SP, SLASH, "a">>)
    /\ workdir = <<SLASH>>
    /\ \E i \in 1..Len(pre) : pre[i] = <<HASH, SP, "ENV", SP, "a">>

\* the session typed "WORKDIR /a", "# c", "a" from a fresh log, and every run
\* and build exited zero
EndToEnd ==
    /\ session.on /\ session.clean
    /\ session.typed = << <<"WORKDIR", SP, SLASH, "a">>, <<HASH, SP, "c">>, <<"a">> >>

\* C20: from a fresh log, the inputs "WORKDIR /a", "# c", "a" with every run
\* and build succeeding leave the log [FROM <default>, WORKDIR /a, # c, "",
\* RUN a], with exactly two Builder invocations: one for the WORKDIR input and
\* one after the shell command.
C20_EndToEnd ==
    EndToEnd =>
        /\ lines = << <<"FROM", SP, "alpine:latest">>,
                      <<"WORKDIR", SP, SLASH, "a">>,
                      <<HASH, SP, "c">>,
                      <<>>,
                      <<"RUN", SP, "a">> >>
        /\ session.builds = <<1, 0, 1>>

\* the last call wrote the log and constructed a Dockerfile from the file
IsReopen == call.op = "reopen"

\* C21: for every reachable log, writing the log and constructing a new
\* Dockerfile from the file, with no image argument, yields identical lines,
\* base image and workdir.
C21_RoundTrip ==
    IsReopen =>
        /\ err = "none"
        /\ lines = pre
        /\ image = prev.image
        /\ workdir = prev.workdir

\* the last call was Dockerfile.set_image
IsSetImage == call.op = "set_image"

\* the number of base-image lines of ls
FromCount(ls) == Cardinality({i \in 1..Len(ls) : IsFrom(ls[i])})

\* C22: set_image is idempotent: a second call with the same image leaves the
\* log as the first call left it and adds no second base-image line (a log
\* with none gains one, any other keeps the number it has); on a log that has
\* a base-image line set_image leaves the number of lines unchanged.
C22_SetImageIdempotent ==
    IsSetImage =>
        /\ image = call.arg
        /\ set_image(Obj, call.arg).lines = lines
        /\ FromCount(lines) = (IF FromCount(pre) = 0 THEN 1 ELSE FromCount(pre))
        /\ FromCount(pre) > 0 => Len(lines) = Len(pre)
        /\ FromCount(pre) = 0 => lines = << <<"FROM", SP>> \o call.arg >> \o pre
        /\ (FromCount(pre) = 1 /\ prev.image = call.arg
               /\ \E i \in 1..Len(pre) : pre[i] = <<"FROM", SP>> \o call.arg)
           => lines = pre

\* set_image("x") called on the log a set_image("x") left: nothing changes
C22_Witness ==
    /\ IsSetImage
    /\ prev.image = call.arg
    /\ Len(pre) > 1
    /\ FromCount(pre) = 1
    /\ pre[1] = <<"FROM", SP, "x">>
    /\ lines = pre

\* the last call was Dockerfile(path, image): file is what the path held
IsInit == call.op = "init"

\* the logical lines of the physical lines raw: a line that ends with a
\* backslash is joined with the line after it
RECURSIVE LogicalLines(_)
LogicalLines(raw) ==
    IF raw = <<>> THEN <<>>
    ELSE IF Len(raw) >= 2 /\ endswith(raw[1], <<BS>>)
         THEN LogicalLines(<< raw[1] \o <<NL>> \o raw[2] >> \o SubSeq(raw, 3, Len(raw)))
         ELSE << raw[1] >> \o LogicalLines(Tail(raw))

\* ls with its first base-image line replaced by the FROM line of img
RECURSIVE WithImage(_, _)
WithImage(ls, img) ==
    IF ls = <<>> THEN <<>>
    ELSE IF IsFrom(ls[1]) THEN << <<"FROM", SP>> \o img >> \o Tail(ls)
    ELSE << ls[1] >> \o WithImage(Tail(ls), img)

\* C23: construction.  With no persisted file the log is [FROM <image>] (the
\* image given, or alpine:latest) and workdir is "/".  With a persisted file
\* and no image argument the lines, base image and workdir are those of the
\* file.  With a persisted file and an image argument the existing base-image
\* line is rewritten in place.  With a persisted file that holds no
\* base-image line a FROM line is inserted at position 0.
C23_Construction ==
    IsInit =>
        LET given == IF call.arg = <<>> THEN <<"alpine:latest">> ELSE call.arg
            inFile == LogicalLines(splitlines(file))
        IN  /\ err = "none"
            /\ file = NoFile =>
                   /\ lines = << <<"FROM", SP>> \o given >>
                   /\ image = given
                   /\ workdir = <<SLASH>>
            /\ (file # NoFile /\ FromCount(inFile) = 0) =>
                   /\ lines = << <<"FROM", SP>> \o given >> \o inFile
                   /\ image = given
                   /\ workdir = LastWorkdir(inFile)
            /\ (file # NoFile /\ FromCount(inFile) > 0 /\ call.arg = <<>>) =>
                   /\ lines = inFile
                   /\ <<"FROM", SP>> \o image = inFile[FirstFrom(inFile, 1)]
                   /\ workdir = LastWorkdir(inFile)
            /\ (file # NoFile /\ FromCount(inFile) > 0 /\ call.arg # <<>>) =>
                   /\ lines = WithImage(inFile, call.arg)
                   /\ image = call.arg
                   /\ workdir = LastWorkdir(inFile)

\* line is a RUN line
IsRun(line) == startswith(line, <<"RUN", SP>>)

\* line is of one of the kinds a log is made of
IsLogLine(line) ==
    \/ IsFrom(line)
    \/ is_command(line)
    \/ startswith(line, <<HASH>>)
    \/ line = <<>>
    \/ IsRun(line)

\* C29: from a fresh log, after any sequence of inputs and rollbacks, every
\* line of the log is a base-image line, a native directive, a comment (an
\* error-comment is one), a blank separator or a RUN line, and every RUN line
\* is immediately preceded by a blank line.
C29_LogLineKinds ==
    \A i \in 1..Len(lines) :
        /\ IsLogLine(lines[i])
        /\ IsRun(lines[i]) => (i > 1 /\ lines[i - 1] = <<>>)

\* a log with a RUN line and its separator, reached again after a rollback
\* that left a separator behind
C29_Witness ==
    /\ session.on
    /\ Len(lines) >= 4
    /\ IsRun(lines[Len(lines)])
    /\ lines[Len(lines) - 1] = <<>>
    /\ lines[Len(lines) - 2] = <<>>
    /\ \E i \in 1..Len(session.builds) : session.builds[i] = 1 /\ ~session.clean

\* C30: the container run of a shell command uses the workdir current when
\* the line is processed, which is the workdir the input before it left (the
\* W a cd or WORKDIR input set); comment inputs, shell commands, successful
\* or failed, and directives other than WORKDIR leave workdir unchanged.
C30_RunUsesWorkdir ==
    /\ IsShell =>
           /\ ops[1].ev = "run"
           /\ ops[1].wd = prev.workdir
           /\ workdir = prev.workdir
    /\ (IsComment \/ IsOtherDirective) => workdir = prev.workdir
    /\ \A i \in 1..Len(ops) : ops[i].ev = "run" => ops[i].wd = prev.workdir

\* after workdir was moved to /a a shell command ran at /a and failed
C30_Witness ==
    /\ IsShell
    /\ prev.workdir = <<SLASH, "a">>
    /\ ops[1].ev = "run" /\ ops[1].wd = <<SLASH, "a">>
    /\ ops[1].rc # 0
    /\ workdir = <<SLASH, "a">>
    /\ \E i \in 1..Len(pre) : pre[i] = <<"WORKDIR", SP, SLASH, "a">>

\* a physical line has been read by Keyboard.input
Typed == kb.last # NotTyped

\* the physical line last read is exit or quit, trailing whitespace aside
LastIsExit == rstrip(kb.last) \in { <<"exit">>, <<"quit">> }

\* C27: Keyboard.input raises the interrupt iff the first physical line of a
\* logical line is exit or quit (as read, which is without its trailing
\* whitespace); an exit or quit on a continuation line is part of the command.
\* It never returns an empty string: an empty or whitespace-only entry makes
\* it start again with the first prompt.
C27_ExitAndReprompt ==
    Typed =>
        /\ kb.state = "raised" <=> (kb.first /\ LastIsExit)
        /\ kb.state = "returned" =>
               /\ kb.out # <<>>
               /\ ~IsSpace(kb.out[1]) /\ ~IsSpace(kb.out[Len(kb.out)])
        /\ (kb.first /\ rstrip(kb.last) = <<>>) =>
               kb.state = "reading" /\ kb.lines = <<>>
        /\ (~kb.first /\ LastIsExit) =>
               /\ kb.state = "returned"
               /\ endswith(kb.out, rstrip(kb.last))

\* quit typed on a continuation line after "a \": the command "a \n    quit"
C27_Witness ==
    /\ Typed /\ ~kb.first
    /\ kb.last = <<"quit">>
    /\ kb.state = "returned"
    /\ kb.out = <<"a", SP, NL, SP, SP, SP, SP, "quit">>

\* the state is that of run_interactive_session at its first prompt
IsStartup == call.op = "startup"

\* the last pass of the loop took a line or a signal from input_fn
IsLine == call.op = "line"

\* a build of the last step exited non-zero
BuildFailed == \E i \in 1..Len(ops) : ops[i].ev = "build" /\ ops[i].rc # 0

\* C24: a build failure after startup, in a build triggered by processing an
\* input line, never ends the session: the log is rolled back to what it was
\* before the line and the loop is at the prompt again.  A failure of the
\* first build, at startup, ends the process.
C24_BuildFailureRecovered ==
    /\ (IsLine /\ BuildFailed) => (err = "none" /\ lines = pre)
    /\ (IsStartup /\ BuildFailed) => err = "SystemExit"

\* the session has ended: by exit, quit, end of input or an interrupt
\* ("break"), or by an exception
Ended == err # "none"

\* C25: whenever the session loop terminates, on exit, quit, end of input or
\* an interrupt (and on any other way it ends), the file content equals the
\* in-memory log: the lines joined by newlines, with a trailing newline.
C25_FileCurrentAtEnd == Ended => file = Written(lines)

\* the session ended on exit after a directive was recorded without a build
C25_Witness ==
    /\ err = "break"
    /\ call.arg = <<"exit">>
    /\ lines[Len(lines)] = <<"ENV", SP, "a">>
    /\ session.builds[Len(session.builds) - 1] = 0
    /\ file = Written(lines)

\* entry ends the session: end of input, an interrupt, exit or quit
IsExitSignal(entry) ==
    \/ entry \in { <<"<EOFError>">>, <<"<KeyboardInterrupt>">> }
    \/ strip(entry) \in { <<"exit">>, <<"quit">> }

C28_LeadingSpaceHidden ==
    (IsLine /\ startswith(call.arg, <<SP>>) /\ strip(call.arg) # <<>>) =>
        /\ \E i \in 1..Len(ops) : ops[i].ev = "run" /\ ops[i].line = call.arg
        /\ ops[1].rc = 0 => lines = pre

====
